---- MODULE Spec2Model ----
(***************************************************************************)
(* Model of euler/checkdepend.py, the commit-dependency checker, and of    *)
(* the job table of web/server.py.  Texts (hashes, subjects, bodies, log   *)
(* blobs, file contents) are sequences of one-character strings, so that   *)
(* matching, slicing and line splitting are computed the way the Python    *)
(* code computes them.                                                     *)
(***************************************************************************)
EXTENDS Integers, Sequences, FiniteSets, TLC

\* ------------------------------------------------------------------ bounds
MaxStable == 3
MaxInputs == 2
MaxFrags == 3
MaxJobs == 2
MaxKills == 1
MaxLogCommits == 2

\* ------------------------------------------------------------- characters
NL == "\n"
SP == " "
HASH == "#"

UpperToLower ==
  [c \in {"A","B","C","D","E","F","I","S","X"} |->
     CASE c = "A" -> "a" [] c = "B" -> "b" [] c = "C" -> "c" [] c = "D" -> "d"
       [] c = "E" -> "e" [] c = "F" -> "f" [] c = "I" -> "i" [] c = "S" -> "s"
       [] c = "X" -> "x"]

\* str.lower() / re.IGNORECASE on one character
LowerChar(c) == IF c \in DOMAIN UpperToLower THEN UpperToLower[c] ELSE c

\* \s of the regex: the whitespace characters of the model's alphabet
IsSpace(c) == c \in {" ", "\n", "\t"}

\* \w of the regex: letters, digits and underscore
WordChars ==
  {"a","b","c","d","e","f","g","h","i","j","k","l","m","n","o","p","q","r",
   "s","t","u","v","w","x","y","z",
   "A","B","C","D","E","F","I","S","X",
   "0","1","2","3","4","5","6","7","8","9","_"}

IsWord(c) == c \in WordChars

\* ------------------------------------------------------------ text helpers
\* str.lower()
Lower(t) == [n \in 1..Len(t) |-> LowerChar(t[n])]

\* t[:n]
Prefix(t, n) == SubSeq(t, 1, IF n < Len(t) THEN n ELSE Len(t))

\* pat occurs in t starting at (1-based) position p
MatchAt(t, p, pat) ==
  /\ p >= 1
  /\ p + Len(pat) - 1 <= Len(t)
  /\ \A n \in 1..Len(pat) : t[p + n - 1] = pat[n]

\* the same, comparing letters case-insensitively
MatchAtCI(t, p, pat) ==
  /\ p >= 1
  /\ p + Len(pat) - 1 <= Len(t)
  /\ \A n \in 1..Len(pat) : LowerChar(t[p + n - 1]) = LowerChar(pat[n])

\* `pat in t`: literal, case-sensitive substring test
Contains(t, pat) == \E p \in 1..(Len(t) - Len(pat) + 1) : MatchAt(t, p, pat)

\* case-insensitive substring test (git log --grep=... -i)
ContainsCI(t, pat) == \E p \in 1..(Len(t) - Len(pat) + 1) : MatchAtCI(t, p, pat)

\* str.find: position of the first occurrence, 0-based, -1 when absent
Find(t, pat) ==
  IF Contains(t, pat)
  THEN (CHOOSE p \in 1..(Len(t) - Len(pat) + 1) :
          /\ MatchAt(t, p, pat)
          /\ \A q \in 1..(p - 1) : ~MatchAt(t, q, pat)) - 1
  ELSE -1

\* position of the first line break of t, 0 when there is none
FirstNL(t) ==
  IF \E p \in 1..Len(t) : t[p] = NL
  THEN CHOOSE p \in 1..Len(t) : t[p] = NL /\ \A q \in 1..(p - 1) : t[q] # NL
  ELSE 0

\* str.splitlines() (line breaks of the model's alphabet: "\n")
RECURSIVE SplitLines(_)
SplitLines(t) ==
  IF t = <<>> THEN <<>>
  ELSE LET nl == FirstNL(t)
       IN IF nl = 0 THEN <<t>>
          ELSE <<SubSeq(t, 1, nl - 1)>> \o SplitLines(SubSeq(t, nl + 1, Len(t)))

\* concatenation of a sequence of texts
RECURSIVE Concat(_)
Concat(ts) == IF ts = <<>> THEN <<>> ELSE Head(ts) \o Concat(Tail(ts))

\* ---------------------------------------------------------- git helpers
FixesKeyword == <<"F","i","x","e","s",":">>

\* every character of t[from..to] is whitespace
AllSpace(t, from, to) == \A n \in from..to : IsSpace(t[n])

\* regex ^ under re.MULTILINE: start of the text or just after a newline
AtLineStart(t, p) == p = 1 \/ (p - 1 <= Len(t) /\ t[p - 1] = NL)

\* regex \b at the gap before position p
WordBoundary(t, p) ==
  LET before == p - 1 >= 1 /\ p - 1 <= Len(t) /\ IsWord(t[p - 1])
      after == p >= 1 /\ p <= Len(t) /\ IsWord(t[p])
  IN before # after

\* mutant: the pattern without its trailing \b
has_real_fixes_reference_nob(short7, text) ==
  \E p \in 1..(Len(text) + 1) :
    /\ AtLineStart(text, p)
    /\ \E k \in 0..(Len(text) - p + 1) :
         /\ AllSpace(text, p, p + k - 1)
         /\ MatchAtCI(text, p + k, FixesKeyword)
         /\ \E m \in 0..(Len(text) - p - k + 1) :
              LET q == p + k + Len(FixesKeyword)
              IN /\ q + m - 1 <= Len(text)
                 /\ AllSpace(text, q, q + m - 1)
                 /\ MatchAtCI(text, q + m, short7)

\* re.search(rf'^\s*Fixes:\s*{short7}\b', text, re.IGNORECASE | re.MULTILINE)
has_real_fixes_reference(short7, text) ==
  \E p \in 1..(Len(text) + 1) :
    /\ AtLineStart(text, p)
    /\ \E k \in 0..(Len(text) - p + 1) :
         /\ AllSpace(text, p, p + k - 1)
         /\ MatchAtCI(text, p + k, FixesKeyword)
         /\ \E m \in 0..(Len(text) - p - k + 1) :
              LET q == p + k + Len(FixesKeyword)
              IN /\ q + m - 1 <= Len(text)
                 /\ AllSpace(text, q, q + m - 1)
                 /\ MatchAtCI(text, q + m, short7)
                 /\ WordBoundary(text, q + m + Len(short7))

\* for line in text.splitlines(): first line holding short7 with no '#'
\* before its first occurrence
short7_in_text_non_commented(short7, text) ==
  LET lines == SplitLines(text)
  IN \E n \in 1..Len(lines) :
       /\ Contains(lines[n], short7)
       /\ ~Contains(Prefix(lines[n], Find(lines[n], short7)), <<HASH>>)


\* leading and trailing whitespace removed: str.strip()
RECURSIVE StripLeft(_)
StripLeft(t) == IF t # <<>> /\ IsSpace(Head(t)) THEN StripLeft(Tail(t)) ELSE t

RECURSIVE StripRight(_)
StripRight(t) ==
  IF t # <<>> /\ IsSpace(t[Len(t)]) THEN StripRight(SubSeq(t, 1, Len(t) - 1)) ELSE t

Strip(t) == StripRight(StripLeft(t))

\* ------------------------------------------------- the two histories
\* Full hashes are 16 hexadecimal characters here (40 in git): longer than
\* the 7- and 14-character prefixes the program cuts from them.
HashTail == <<"2","3","4","5","6","7","8","9","0">>

tokA == <<"a","b","c","d","e","f","1">>
tokR1 == <<"b","1","1","1","1","1","1">>
tokR2 == <<"b","2","2","2","2","2","2">>
tokK1 == <<"c","2","2","2","2","2","2">>

\* the commit under test; its own message names its own short hash
CommitA ==
  [full_hash |-> tokA \o HashTail, subject |-> <<"a","d","d"," ","a">>,
   body |-> <<"F","i","x","e","s",":"," ","a","b","c","d","e","f","1","\n">>]
\* a fix of A carrying a Fixes: trailer
CommitR1 ==
  [full_hash |-> tokR1 \o HashTail, subject |-> <<"f","i","x"," ","a">>,
   body |-> <<"F","i","x","e","s",":"," ","a","b","c","d","e","f","1"," ","(","x",")","\n">>]
\* a second fix of A (a commented mention, then a lower-case trailer) that
\* also fixes R1
CommitR2 ==
  [full_hash |-> tokR2 \o HashTail, subject |-> <<"f","i","x"," ","b">>,
   body |-> <<"#"," ","a","b","c","d","e","f","1","\n","f","i","x","e","s",":","a","b","c","d","e","f","1","\n","F","i","x","e","s",":"," ","b","1","1","1","1","1","1","\n">>]
\* mentions A in running text, and R1 only behind a comment delimiter
CommitK1 ==
  [full_hash |-> tokK1 \o HashTail, subject |-> <<"n","o","t","e">>,
   body |-> <<"s","e","e"," ","a","b","c","d","e","f","1","\n","#"," ","s","e","e"," ","b","1","1","1","1","1","1","\n">>]

StablePool == {CommitA, CommitR1, CommitR2, CommitK1}

\* downstream commits: the base commit and the ones a later push may add
DownBase == [full_hash |-> <<"d","0","0","0","0","0","0">> \o HashTail, subject |-> <<"i","n","i","t">>]
DownFixA == [full_hash |-> <<"d","1","1","1","1","1","1">> \o HashTail, subject |-> <<"f","i","x"," ","a">>]
DownFixAB == [full_hash |-> <<"d","2","2","2","2","2","2">> \o HashTail, subject |-> <<"f","i","x"," ","a","b">>]

DownPool == {DownFixA, DownFixAB}

\* the references the operator may type: a full hash and a short one
Refs == {CommitA.full_hash, tokR1}

\* Python's None where a text is expected: falsy, like the empty text
None == <<>>

SeqsUpTo(S, n) == UNION {[1..m -> S] : m \in 0..n}


\* ------------------------------------------------------------ state
VARIABLES
  stable,        \* upstream history, in the order git log walks it
  user,          \* downstream history, newest first
  input_src,     \* the commits file (or the lines typed): exists, lines
  pc,            \* position of main()
  commits,       \* main: commits
  user_log_txt,  \* main: user_log_txt
  resolved,      \* main: resolved
  i,             \* index of the resolution loop (for c in commits)
  k,             \* index of the dependency loop (for ... in resolved)
  candidates,    \* main: candidates
  deps_found,    \* main: deps_found
  unique,        \* main: unique
  j,             \* index of the check loop (for ... in unique)
  all_fixed,     \* main: all_fixed
  dep_status,    \* main: dep_status
  fs,            \* the four files .stable_log .user_log .full_commits .dep_log
  console,       \* what print() wrote, one record per message
  queries,       \* the git commands run_cmd() issued, in order
  results,       \* per processed input: full hash, dependency list, verdict
  run,           \* "first" or "next": which invocation of the program this is
  prev,          \* results of the previous invocation
  added,         \* downstream commits pushed between the two invocations
  mt_pc, mt_short7, mt_text, mt_real, mt_nc   \* a call of the two matchers

mainvars ==
  <<stable, user, input_src, pc, commits, user_log_txt, resolved, i, k,
    candidates, deps_found, unique, j, all_fixed, dep_status, fs, console,
    queries, results, run, prev, added>>

mtvars == <<mt_pc, mt_short7, mt_text, mt_real, mt_nc>>

\* the web server (web/server.py)
VARIABLES
  jobs,          \* jobs: job id -> job record (in memory)
  jobs_file,     \* logs/.jobs.json: the jobs table as last persisted
  job_lock,      \* job_lock: "free", or the thread that holds it
  job_processes, \* job_processes: the job ids with a registered Popen handle
  wpc,           \* per job id: position of its run_make_command thread
  proc,          \* per job id: the make process started for it
  kills,         \* per kill request: position of its kill_job handler
  torvalds_repo, \* the .torvalds-linux directory: "absent" or "present"
  boot           \* "down" before the module-level start-up code ran, "up" after

srvvars ==
  <<jobs, jobs_file, job_lock, job_processes, wpc, proc, kills, torvalds_repo, boot>>

\* a call of the fixed test of main() alone
VARIABLES
  fx_pc,         \* "idle", "call" or "done"
  fx_subject,    \* st_subject
  fx_log,        \* user_log_txt
  fx_fixed       \* is_fixed

fxvars == <<fx_pc, fx_subject, fx_log, fx_fixed>>

vars == <<mainvars, mtvars, srvvars, fxvars>>

\* ------------------------------------------------------ History Reader
\* what `git log --oneline` prints: abbreviated hash, subject, per commit
OneLineLog(hist) ==
  Concat([n \in 1..Len(hist) |->
            Prefix(hist[n].full_hash, 7) \o <<SP>> \o hist[n].subject \o <<NL>>])

\* stdout of git show --pretty=format:"%H%n%s" --no-patch <commitish>;
\* empty when the object is unknown (the error goes to stderr)
GitShowOutput(hist, commitish) ==
  IF \E n \in 1..Len(hist) : MatchAt(hist[n].full_hash, 1, commitish)
  THEN LET n == CHOOSE m \in 1..Len(hist) : MatchAt(hist[m].full_hash, 1, commitish)
       IN hist[n].full_hash \o <<NL>> \o hist[n].subject
  ELSE <<>>

\* mutant: an unknown reference resolves to the newest upstream commit
git_show_full_commit_head(hist, commitish) ==
  LET out == IF GitShowOutput(hist, commitish) = <<>> /\ hist # <<>>
             THEN hist[1].full_hash \o <<NL>> \o hist[1].subject
             ELSE GitShowOutput(hist, commitish)
      parts == SplitLines(out)
  IN IF out = <<>> THEN <<None, None>>
     ELSE IF Len(parts) >= 2 THEN <<Strip(parts[1]), Strip(parts[2])>>
     ELSE IF Len(parts) = 1 THEN <<Strip(parts[1]), <<>>>>
     ELSE <<None, None>>

git_show_full_commit(hist, commitish) ==
  LET out == GitShowOutput(hist, commitish)
      parts == SplitLines(out)
  IN IF out = <<>> THEN <<None, None>>
     ELSE IF Len(parts) >= 2 THEN <<Strip(parts[1]), Strip(parts[2])>>
     ELSE IF Len(parts) = 1 THEN <<Strip(parts[1]), <<>>>>
     ELSE <<None, None>>

\* the text git log --grep searches: the whole commit message
Message(rec) == rec.subject \o <<NL, NL>> \o rec.body

\* git log --all --grep=<short7> -i, parsed into (full_hash, subject, body)
git_find_stable_commits_mentioning(short7, hist) ==
  LET hits == SelectSeq(hist, LAMBDA rec : ContainsCI(Message(rec), short7))
  IN [n \in 1..Len(hits) |->
        [full_hash |-> Strip(hits[n].full_hash),
         subject |-> Strip(hits[n].subject),
         body |-> hits[n].body]]

\* ------------------------------------------------- Dependency Resolver
\* mutant: no self-match exclusion
RECURSIVE ClassifyCandidates_noself(_, _, _)
ClassifyCandidates_noself(cands, full_hash, short7) ==
  IF cands = <<>> THEN <<>>
  ELSE LET c == Head(cands)
           rest == ClassifyCandidates_noself(Tail(cands), full_hash, short7)
           combined_text == c.subject \o <<NL>> \o c.body
       IN IF has_real_fixes_reference(short7, combined_text)
          THEN <<[kind |-> "REAL", full_hash |-> c.full_hash, subject |-> c.subject]>> \o rest
          ELSE IF short7_in_text_non_commented(short7, combined_text)
          THEN <<[kind |-> "AMIGOS", full_hash |-> c.full_hash, subject |-> c.subject]>> \o rest
          ELSE rest

\* mutant: the non-commented test is tried before the Fixes: test
RECURSIVE ClassifyCandidates_swapped(_, _, _)
ClassifyCandidates_swapped(cands, full_hash, short7) ==
  IF cands = <<>> THEN <<>>
  ELSE LET c == Head(cands)
           rest == ClassifyCandidates_swapped(Tail(cands), full_hash, short7)
           combined_text == c.subject \o <<NL>> \o c.body
       IN IF Lower(c.full_hash) = Lower(full_hash) THEN rest
          ELSE IF short7_in_text_non_commented(short7, combined_text)
          THEN <<[kind |-> "AMIGOS", full_hash |-> c.full_hash, subject |-> c.subject]>> \o rest
          ELSE IF has_real_fixes_reference(short7, combined_text)
          THEN <<[kind |-> "REAL", full_hash |-> c.full_hash, subject |-> c.subject]>> \o rest
          ELSE rest

\* mutant: the comment test is dropped, a grep hit is enough
RECURSIVE ClassifyCandidates_nocomment(_, _, _)
ClassifyCandidates_nocomment(cands, full_hash, short7) ==
  IF cands = <<>> THEN <<>>
  ELSE LET c == Head(cands)
           rest == ClassifyCandidates_nocomment(Tail(cands), full_hash, short7)
           combined_text == c.subject \o <<NL>> \o c.body
       IN IF Lower(c.full_hash) = Lower(full_hash) THEN rest
          ELSE IF has_real_fixes_reference(short7, combined_text)
          THEN <<[kind |-> "REAL", full_hash |-> c.full_hash, subject |-> c.subject]>> \o rest
          ELSE IF Contains(combined_text, short7)
          THEN <<[kind |-> "AMIGOS", full_hash |-> c.full_hash, subject |-> c.subject]>> \o rest
          ELSE rest

\* the loop over candidates: self-match exclusion, then REAL / AMIGOS / drop
RECURSIVE ClassifyCandidates(_, _, _)
ClassifyCandidates(cands, full_hash, short7) ==
  IF cands = <<>> THEN <<>>
  ELSE LET c == Head(cands)
           rest == ClassifyCandidates(Tail(cands), full_hash, short7)
           combined_text == c.subject \o <<NL>> \o c.body
       IN IF Lower(c.full_hash) = Lower(full_hash) THEN rest
          ELSE IF has_real_fixes_reference(short7, combined_text)
          THEN <<[kind |-> "REAL", full_hash |-> c.full_hash, subject |-> c.subject]>> \o rest
          ELSE IF short7_in_text_non_commented(short7, combined_text)
          THEN <<[kind |-> "AMIGOS", full_hash |-> c.full_hash, subject |-> c.subject]>> \o rest
          ELSE rest

\* mutant: nothing is dropped
Deduplicate_none(deps, seen) == deps

\* deduplicate by full hash: an entry is kept unless its hash was seen
RECURSIVE Deduplicate(_, _)
Deduplicate(deps, seen) ==
  IF deps = <<>> THEN <<>>
  ELSE IF Head(deps).full_hash \notin seen
       THEN <<Head(deps)>> \o Deduplicate(Tail(deps), seen \cup {Head(deps).full_hash})
       ELSE Deduplicate(Tail(deps), seen)

\* --------------------------------------------------------- Verdict Engine
\* mutant: fuzzy matching, the first word of the subject is enough
IsFixed_prefix(st_subject, log_txt) == Contains(log_txt, Prefix(st_subject, 3))

\* the characters re.escape puts a backslash before
SpecialChars ==
  {"(", ")", "[", "]", "{", "}", "?", "*", "+", "-", "|", "^", "$", "\\",
   ".", "&", "~", "#", " ", "\t", "\n"}

\* re.escape(pattern)
RECURSIVE re_escape(_)
re_escape(pattern) ==
  IF pattern = <<>> THEN <<>>
  ELSE (IF Head(pattern) \in SpecialChars
        THEN <<"\\", Head(pattern)>> ELSE <<Head(pattern)>>)
       \o re_escape(Tail(pattern))

\* the pattern as the regex compiler reads it: a backslash makes the next
\* character a literal, a bare '.' stands for any character but a line
\* break, every other character stands for itself (the remaining operators
\* do not occur in the patterns handed over here)
RECURSIVE re_compile(_)
re_compile(pattern) ==
  IF pattern = <<>> THEN <<>>
  ELSE IF Head(pattern) = "\\" /\ Len(pattern) >= 2
  THEN <<[any |-> FALSE, ch |-> pattern[2]]>> \o re_compile(Tail(Tail(pattern)))
  ELSE <<[any |-> Head(pattern) = ".", ch |-> Head(pattern)]>> \o re_compile(Tail(pattern))

\* bool(re.search(pattern, string)), no flags: a match of the whole
\* pattern starting anywhere in the string, letters compared as they are
re_search(pattern, string) ==
  LET items == re_compile(pattern)
  IN \E p \in 1..(Len(string) - Len(items) + 1) :
       \A n \in 1..Len(items) :
         IF items[n].any THEN string[p + n - 1] # NL
         ELSE string[p + n - 1] = items[n].ch

\* mutant: the subject is handed to re.search as it is
IsFixed_noescape(st_subject, log_txt) == re_search(st_subject, log_txt)

\* bool(re.search(re.escape(st_subject), user_log_txt))
IsFixed(st_subject, log_txt) == re_search(re_escape(st_subject), log_txt)

\* mutant: every unfixed dependency blocks, AMIGOS included
Blocks_any(dep_type, is_fixed) == ~is_fixed

\* if dep_type == "REAL" and not is_fixed: all_fixed = False
Blocks(dep_type, is_fixed) == dep_type = "REAL" /\ ~is_fixed


\* ------------------------------------------- web/server.py: the tables
\* job_lock is free
Free == <<"free", 0>>

\* no process was started for the job
NoProc == [st |-> "none", code |-> 0, sig |-> FALSE]

\* a kill request that has not arrived
NoKill == [pc |-> "idle", job |-> 0, resp |-> 0]

\* the server with no job, no thread and no request
SrvIdle ==
  /\ jobs = <<>>
  /\ jobs_file = <<>>
  /\ job_lock = Free
  /\ job_processes = {}
  /\ wpc = [id \in 1..MaxJobs |-> "none"]
  /\ proc = [id \in 1..MaxJobs |-> NoProc]
  /\ kills = [n \in 1..MaxKills |-> NoKill]
  /\ torvalds_repo = "absent"
  /\ boot = "up"

\* ------------------------------------------------------------ main()
Event(ev, text, deps) == [ev |-> ev, text |-> text, deps |-> deps]

Query(op, repo, arg) == [op |-> op, repo |-> repo, arg |-> arg]

NoFiles == [stable_log |-> <<>>, user_log |-> <<>>, full_commits |-> <<>>, dep_log |-> <<>>]

MtIdle ==
  /\ mt_pc = "idle"
  /\ mt_short7 = <<>>
  /\ mt_text = <<>>
  /\ mt_real = FALSE
  /\ mt_nc = FALSE

FxIdle ==
  /\ fx_pc = "idle"
  /\ fx_subject = <<>>
  /\ fx_log = <<>>
  /\ fx_fixed = FALSE

Init ==
  /\ stable \in SeqsUpTo(StablePool, MaxStable)
  /\ user = <<DownBase>>
  /\ input_src \in {[exists |-> FALSE, lines |-> <<>>]} \cup
                   {[exists |-> TRUE, lines |-> l] : l \in SeqsUpTo(Refs, MaxInputs)}
  /\ pc = "start"
  /\ commits = <<>>
  /\ user_log_txt = <<>>
  /\ resolved = <<>>
  /\ i = 1
  /\ k = 1
  /\ candidates = <<>>
  /\ deps_found = <<>>
  /\ unique = <<>>
  /\ j = 1
  /\ all_fixed = TRUE
  /\ dep_status = <<>>
  /\ fs = NoFiles
  /\ console = <<>>
  /\ queries = <<>>
  /\ results = <<>>
  /\ run = "first"
  /\ prev = <<>>
  /\ added = <<>>
  /\ MtIdle
  /\ FxIdle
  /\ SrvIdle

\* mutant: the commits file is opened after the two logs were generated
MissingFile_afterlogs ==
  /\ pc = "start"
  /\ ~input_src.exists
  /\ queries' = queries \o <<Query("log", "stable", <<>>), Query("log", "user", <<>>)>>
  /\ console' = Append(console, Event("error", <<>>, <<>>))
  /\ pc' = "exit1"
  /\ UNCHANGED <<stable, user, input_src, commits, user_log_txt, resolved, i, k,
                 candidates, deps_found, unique, j, all_fixed, dep_status, fs,
                 results, run, prev, added, mtvars, fxvars, srvvars>>

\* the commits file is missing: print the error and sys.exit(1)
MissingFile ==
  /\ pc = "start"
  /\ ~input_src.exists
  /\ console' = Append(console, Event("error", <<>>, <<>>))
  /\ pc' = "exit1"
  /\ UNCHANGED <<stable, user, input_src, commits, user_log_txt, resolved, i, k,
                 candidates, deps_found, unique, j, all_fixed, dep_status, fs,
                 queries, results, run, prev, added, mtvars, fxvars, srvvars>>

\* commits = [line.strip() for line in f if line.strip()]
ReadCommits ==
  /\ pc = "start"
  /\ input_src.exists
  /\ commits' = SelectSeq([n \in 1..Len(input_src.lines) |-> Strip(input_src.lines[n])],
                          LAMBDA c : c # <<>>)
  /\ pc' = "logs"
  /\ UNCHANGED <<stable, user, input_src, user_log_txt, resolved, i, k,
                 candidates, deps_found, unique, j, all_fixed, dep_status, fs,
                 console, queries, results, run, prev, added, mtvars, fxvars, srvvars>>

\* write .stable_log and .user_log, keep the user log in memory, empty .full_commits
GenerateLogs ==
  /\ pc = "logs"
  /\ console' = Append(console, Event("generating", <<>>, <<>>))
  /\ queries' = queries \o <<Query("log", "stable", <<>>), Query("log", "user", <<>>)>>
  /\ user_log_txt' = OneLineLog(user)
  /\ fs' = [fs EXCEPT !.stable_log = OneLineLog(stable),
                      !.user_log = OneLineLog(user),
                      !.full_commits = <<>>]
  /\ resolved' = <<>>
  /\ i' = 1
  /\ pc' = "resolve"
  /\ UNCHANGED <<stable, user, input_src, commits, k, candidates, deps_found,
                 unique, j, all_fixed, dep_status, results, run, prev, added, mtvars, fxvars, srvvars>>

\* mutant: the upstream search is issued as soon as the input resolves
ResolveCommit_search ==
  /\ pc = "resolve"
  /\ i <= Len(commits)
  /\ LET c == commits[i]
         hs == git_show_full_commit(stable, c)
     IN IF hs[1] = <<>>
        THEN /\ queries' = Append(queries, Query("show", "stable", c))
             /\ console' = Append(console, Event("warning", c, <<>>))
             /\ UNCHANGED <<fs, resolved>>
        ELSE /\ queries' = queries \o <<Query("show", "stable", c),
                                        Query("grep", "stable", Prefix(hs[1], 7))>>
             /\ fs' = [fs EXCEPT !.full_commits = @ \o hs[1] \o <<SP>> \o hs[2] \o <<NL>>]
             /\ resolved' = Append(resolved, hs)
             /\ UNCHANGED console
  /\ i' = i + 1
  /\ UNCHANGED <<stable, user, input_src, pc, commits, user_log_txt, k, candidates,
                 deps_found, unique, j, all_fixed, dep_status, results, run, prev,
                 added, mtvars, fxvars, srvvars>>

\* one pass of `for c in commits`: resolve c in the stable repo, or warn and skip
ResolveCommit ==
  /\ pc = "resolve"
  /\ i <= Len(commits)
  /\ LET c == commits[i]
         hs == git_show_full_commit(stable, c)
     IN /\ queries' = Append(queries, Query("show", "stable", c))
        /\ IF hs[1] = <<>>
           THEN /\ console' = Append(console, Event("warning", c, <<>>))
                /\ UNCHANGED <<fs, resolved>>
           ELSE /\ fs' = [fs EXCEPT !.full_commits = @ \o hs[1] \o <<SP>> \o hs[2] \o <<NL>>]
                /\ resolved' = Append(resolved, hs)
                /\ UNCHANGED console
  /\ i' = i + 1
  /\ UNCHANGED <<stable, user, input_src, pc, commits, user_log_txt, k, candidates,
                 deps_found, unique, j, all_fixed, dep_status, results, run, prev,
                 added, mtvars, fxvars, srvvars>>

\* mutant: .dep_log is not emptied before the dependency loop
ClearDepLog_keep ==
  /\ pc = "resolve"
  /\ i > Len(commits)
  /\ console' = Append(console, Event("checking", <<>>, <<>>))
  /\ k' = 1
  /\ pc' = "deps"
  /\ UNCHANGED <<stable, user, input_src, commits, user_log_txt, resolved, i,
                 candidates, deps_found, unique, j, all_fixed, dep_status, queries,
                 results, run, prev, added, fs, mtvars, fxvars, srvvars>>

\* the resolution loop is over: clear .dep_log
ClearDepLog ==
  /\ pc = "resolve"
  /\ i > Len(commits)
  /\ fs' = [fs EXCEPT !.dep_log = <<>>]
  /\ console' = Append(console, Event("checking", <<>>, <<>>))
  /\ k' = 1
  /\ pc' = "deps"
  /\ UNCHANGED <<stable, user, input_src, commits, user_log_txt, resolved, i,
                 candidates, deps_found, unique, j, all_fixed, dep_status, queries,
                 results, run, prev, added, mtvars, fxvars, srvvars>>

\* mutant: `seen` is created once, before the loop over the inputs, so it
\* still holds the hashes entered for the earlier inputs
FindDependencies_sharedseen ==
  /\ pc = "deps"
  /\ k <= Len(resolved)
  /\ LET full_hash == resolved[k][1]
         subject == resolved[k][2]
         short7 == Prefix(full_hash, 7)
         short14 == Prefix(full_hash, 14)
         found == git_find_stable_commits_mentioning(short7, stable)
         deps == ClassifyCandidates(found, full_hash, short7)
     IN /\ console' = Append(console, Event("commit", short14 \o <<SP>> \o subject, <<>>))
        /\ queries' = Append(queries, Query("grep", "stable", short7))
        /\ candidates' = found
        /\ deps_found' = deps
        /\ unique' = Deduplicate(deps,
                       {h \in {c.full_hash : c \in StablePool} :
                          \E n \in 1..Len(results) : \E m \in 1..Len(results[n].deps) :
                            results[n].deps[m].full_hash = h})
  /\ all_fixed' = TRUE
  /\ dep_status' = <<>>
  /\ j' = 1
  /\ pc' = "verdict"
  /\ UNCHANGED <<stable, user, input_src, commits, user_log_txt, resolved, i, k,
                 fs, results, run, prev, added, mtvars, fxvars, srvvars>>

\* top of `for full_hash, subject in resolved`: print the commit, search
\* upstream, classify every candidate, deduplicate by full hash
FindDependencies ==
  /\ pc = "deps"
  /\ k <= Len(resolved)
  /\ LET full_hash == resolved[k][1]
         subject == resolved[k][2]
         short7 == Prefix(full_hash, 7)
         short14 == Prefix(full_hash, 14)
         found == git_find_stable_commits_mentioning(short7, stable)
         deps == ClassifyCandidates(found, full_hash, short7)
     IN /\ console' = Append(console, Event("commit", short14 \o <<SP>> \o subject, <<>>))
        /\ queries' = Append(queries, Query("grep", "stable", short7))
        /\ candidates' = found
        /\ deps_found' = deps
        /\ unique' = Deduplicate(deps, {})
  /\ all_fixed' = TRUE
  /\ dep_status' = <<>>
  /\ j' = 1
  /\ pc' = "verdict"
  /\ UNCHANGED <<stable, user, input_src, commits, user_log_txt, resolved, i, k,
                 fs, results, run, prev, added, mtvars, fxvars, srvvars>>

\* mutant: break instead of continue, the remaining inputs are dropped
NoDependencies_stop ==
  /\ pc = "verdict"
  /\ unique = <<>>
  /\ console' = Append(console, Event("PASS_NODEPS", <<>>, <<>>))
  /\ results' = Append(results, [full_hash |-> resolved[k][1], deps |-> unique,
                                 verdict |-> "PASS"])
  /\ k' = Len(resolved) + 1
  /\ pc' = "deps"
  /\ UNCHANGED <<stable, user, input_src, commits, user_log_txt, resolved, i,
                 candidates, deps_found, unique, j, all_fixed, dep_status, fs,
                 queries, run, prev, added, mtvars, fxvars, srvvars>>

\* if not unique: PASS -> No dependencies found; continue
NoDependencies ==
  /\ pc = "verdict"
  /\ unique = <<>>
  /\ console' = Append(console, Event("PASS_NODEPS", <<>>, <<>>))
  /\ results' = Append(results, [full_hash |-> resolved[k][1], deps |-> unique,
                                 verdict |-> "PASS"])
  /\ k' = k + 1
  /\ pc' = "deps"
  /\ UNCHANGED <<stable, user, input_src, commits, user_log_txt, resolved, i,
                 candidates, deps_found, unique, j, all_fixed, dep_status, fs,
                 queries, run, prev, added, mtvars, fxvars, srvvars>>

\* one pass of `for dep_type, st_full, st_subject in unique`
CheckDependency ==
  /\ pc = "verdict"
  /\ unique # <<>>
  /\ j <= Len(unique)
  /\ LET dep == unique[j]
         dep14 == Prefix(dep.full_hash, 14)
         dep_entry == dep14 \o <<SP>> \o dep.subject
         is_fixed == IsFixed(dep.subject, user_log_txt)
     IN /\ fs' = [fs EXCEPT !.dep_log = @ \o dep_entry \o <<NL>>]
        /\ dep_status' = Append(dep_status, [kind |-> dep.kind, entry |-> dep_entry,
                                              fixed |-> is_fixed])
        /\ all_fixed' = IF Blocks(dep.kind, is_fixed) THEN FALSE ELSE all_fixed
  /\ j' = j + 1
  /\ UNCHANGED <<stable, user, input_src, pc, commits, user_log_txt, resolved, i, k,
                 candidates, deps_found, unique, console, queries, results, run,
                 prev, added, mtvars, fxvars, srvvars>>

\* mutant: only the REAL entries are printed under FAIL
ReportLines_realonly(status) ==
  LET reals == SelectSeq(status, LAMBDA st : st.kind = "REAL")
  IN [n \in 1..Len(reals) |->
        [entry |-> reals[n].entry,
         label |-> IF reals[n].fixed THEN "Fixed (REAL)" ELSE "Missing (REAL)"]]

\* the lines printed under FAIL, one per entry of dep_status
ReportLines(status) ==
  [n \in 1..Len(status) |->
     [entry |-> status[n].entry,
      label |-> IF status[n].kind = "REAL"
                THEN (IF status[n].fixed THEN "Fixed (REAL)" ELSE "Missing (REAL)")
                ELSE "Amigos"]]

\* print PASS, or FAIL with the dependency lines
Report ==
  /\ pc = "verdict"
  /\ unique # <<>>
  /\ j > Len(unique)
  /\ console' = Append(console,
                       IF all_fixed THEN Event("PASS", <<>>, <<>>)
                       ELSE Event("FAIL", <<>>, ReportLines(dep_status)))
  /\ results' = Append(results, [full_hash |-> resolved[k][1], deps |-> unique,
                                 verdict |-> IF all_fixed THEN "PASS" ELSE "FAIL"])
  /\ k' = k + 1
  /\ pc' = "deps"
  /\ UNCHANGED <<stable, user, input_src, commits, user_log_txt, resolved, i,
                 candidates, deps_found, unique, j, all_fixed, dep_status, fs,
                 queries, run, prev, added, mtvars, fxvars, srvvars>>

\* the dependency loop is over: print Done.
Finish ==
  /\ pc = "deps"
  /\ k > Len(resolved)
  /\ console' = Append(console, Event("done", <<>>, <<>>))
  /\ pc' = "done"
  /\ UNCHANGED <<stable, user, input_src, commits, user_log_txt, resolved, i, k,
                 candidates, deps_found, unique, j, all_fixed, dep_status, fs,
                 queries, results, run, prev, added, mtvars, fxvars, srvvars>>

\* The operator runs the program again with the same arguments, in the same
\* directory, after `push` (none, or some downstream commits) was pushed.
RunAgain(push) ==
  /\ pc = "done"
  /\ run = "first"
  /\ run' = "next"
  /\ user' = push \o user
  /\ added' = push
  /\ prev' = results
  /\ pc' = "start"
  /\ commits' = <<>>
  /\ user_log_txt' = <<>>
  /\ resolved' = <<>>
  /\ i' = 1
  /\ k' = 1
  /\ candidates' = <<>>
  /\ deps_found' = <<>>
  /\ unique' = <<>>
  /\ j' = 1
  /\ all_fixed' = TRUE
  /\ dep_status' = <<>>
  /\ console' = <<>>
  /\ queries' = <<>>
  /\ results' = <<>>
  /\ UNCHANGED <<stable, input_src, fs, mtvars, fxvars, srvvars>>

Next ==
  \/ MissingFile
  \/ ReadCommits
  \/ GenerateLogs
  \/ ResolveCommit
  \/ ClearDepLog
  \/ FindDependencies
  \/ NoDependencies
  \/ CheckDependency
  \/ Report
  \/ Finish
  \/ \E d \in DownPool : RunAgain(<<d>>)
  \/ RunAgain(<<>>)

Spec == Init /\ [][Next]_vars


\* ------------------------------------- main() when a file write fails
\* write_file / append_file let the OSError of open() pass and main() has
\* no handler around them: the exception ends the process with a traceback.
\* A failed open() leaves the file as it was.

\* write_file fails in the log generation: on .stable_log (n = 1),
\* .user_log (n = 2) or .full_commits (n = 3)
GenerateLogsFails(n) ==
  /\ pc = "logs"
  /\ console' = console \o <<Event("generating", <<>>, <<>>), Event("traceback", <<>>, <<>>)>>
  /\ queries' = IF n = 1 THEN Append(queries, Query("log", "stable", <<>>))
                ELSE queries \o <<Query("log", "stable", <<>>), Query("log", "user", <<>>)>>
  /\ fs' = IF n = 1 THEN fs
           ELSE IF n = 2 THEN [fs EXCEPT !.stable_log = OneLineLog(stable)]
           ELSE [fs EXCEPT !.stable_log = OneLineLog(stable), !.user_log = OneLineLog(user)]
  /\ user_log_txt' = IF n = 3 THEN OneLineLog(user) ELSE user_log_txt
  /\ pc' = "crashed"
  /\ UNCHANGED <<stable, user, input_src, commits, resolved, i, k, candidates,
                 deps_found, unique, j, all_fixed, dep_status, results, run, prev,
                 added, mtvars, fxvars, srvvars>>

\* append_file(full_commits_path, ...) fails for an input that resolved
ResolveCommitFails ==
  /\ pc = "resolve"
  /\ i <= Len(commits)
  /\ git_show_full_commit(stable, commits[i])[1] # <<>>
  /\ queries' = Append(queries, Query("show", "stable", commits[i]))
  /\ console' = Append(console, Event("traceback", <<>>, <<>>))
  /\ pc' = "crashed"
  /\ UNCHANGED <<stable, user, input_src, commits, user_log_txt, resolved, i, k,
                 candidates, deps_found, unique, j, all_fixed, dep_status, fs,
                 results, run, prev, added, mtvars, fxvars, srvvars>>

\* write_file(dep_log_path, "") fails
ClearDepLogFails ==
  /\ pc = "resolve"
  /\ i > Len(commits)
  /\ console' = Append(console, Event("traceback", <<>>, <<>>))
  /\ pc' = "crashed"
  /\ UNCHANGED <<stable, user, input_src, commits, user_log_txt, resolved, i, k,
                 candidates, deps_found, unique, j, all_fixed, dep_status, fs,
                 queries, results, run, prev, added, mtvars, fxvars, srvvars>>

\* append_file(dep_log_path, ...) fails in the check loop
CheckDependencyFails ==
  /\ pc = "verdict"
  /\ unique # <<>>
  /\ j <= Len(unique)
  /\ console' = Append(console, Event("traceback", <<>>, <<>>))
  /\ pc' = "crashed"
  /\ UNCHANGED <<stable, user, input_src, commits, user_log_txt, resolved, i, k,
                 candidates, deps_found, unique, j, all_fixed, dep_status, fs,
                 queries, results, run, prev, added, mtvars, fxvars, srvvars>>

NextIO ==
  \/ Next
  \/ \E n \in 1..3 : GenerateLogsFails(n)
  \/ ResolveCommitFails
  \/ ClearDepLogFails
  \/ CheckDependencyFails

SpecIO == Init /\ [][NextIO]_vars


\* ------------------------------------------- the matchers, called alone
\* pieces a commit message is put together from
Fragments ==
  {FixesKeyword, <<"F","I","X","E","S",":">>, <<SP>>, <<NL>>, <<HASH>>, tokA, <<"A","B","C","D","E","F","1">>, <<"x">>}

MtTexts == {Concat(fs_) : fs_ \in SeqsUpTo(Fragments, MaxFrags)}

MainIdle ==
  /\ stable = <<>>
  /\ user = <<>>
  /\ input_src = [exists |-> FALSE, lines |-> <<>>]
  /\ pc = "idle"
  /\ commits = <<>>
  /\ user_log_txt = <<>>
  /\ resolved = <<>>
  /\ i = 1
  /\ k = 1
  /\ candidates = <<>>
  /\ deps_found = <<>>
  /\ unique = <<>>
  /\ j = 1
  /\ all_fixed = TRUE
  /\ dep_status = <<>>
  /\ fs = NoFiles
  /\ console = <<>>
  /\ queries = <<>>
  /\ results = <<>>
  /\ run = "first"
  /\ prev = <<>>
  /\ added = <<>>

MtInit ==
  /\ MainIdle
  /\ SrvIdle
  /\ FxIdle
  /\ mt_pc = "call"
  /\ mt_short7 = tokA
  /\ mt_text \in MtTexts
  /\ mt_real = FALSE
  /\ mt_nc = FALSE

\* has_real_fixes_reference(short7, text) is called and returns
MtCallReal ==
  /\ mt_pc = "call"
  /\ mt_real' = has_real_fixes_reference(mt_short7, mt_text)
  /\ mt_pc' = "real_done"
  /\ UNCHANGED <<mainvars, srvvars, fxvars, mt_short7, mt_text, mt_nc>>

\* short7_in_text_non_commented(short7, text) is called and returns
MtCallNonCommented ==
  /\ mt_pc = "real_done"
  /\ mt_nc' = short7_in_text_non_commented(mt_short7, mt_text)
  /\ mt_pc' = "done"
  /\ UNCHANGED <<mainvars, srvvars, fxvars, mt_short7, mt_text, mt_real>>

MtNext == MtCallReal \/ MtCallNonCommented

SpecMatch == MtInit /\ [][MtNext]_vars

\* ------------------------------------------ the fixed test called alone
\* dependency subjects: empty, plain, with '.', with a space, with '(' ')'
FxSubjects ==
  {<<>>, <<"a","b","c">>, <<"a",".","c">>, <<"A","b","c">>, <<"a"," ","c">>,
   <<"f","(",")">>}

\* subjects of the downstream commits the one-line log is printed from
FxDownSubjects ==
  {<<"a","b","c">>, <<"a",".","c">>, <<"x"," ","a"," ","c","d">>, <<"f","(",")">>}

FxDownPool ==
  {[full_hash |-> <<"d","0","0","0","0","0","0">> \o HashTail, subject |-> sub] :
     sub \in FxDownSubjects}

FxInit ==
  /\ MainIdle
  /\ MtIdle
  /\ SrvIdle
  /\ fx_pc = "call"
  /\ fx_subject \in FxSubjects
  /\ fx_log \in {OneLineLog(hist) : hist \in SeqsUpTo(FxDownPool, MaxLogCommits)}
  /\ fx_fixed = FALSE

\* is_fixed = bool(re.search(re.escape(st_subject), user_log_txt))
FxCall ==
  /\ fx_pc = "call"
  /\ fx_fixed' = IsFixed(fx_subject, fx_log)
  /\ fx_pc' = "done"
  /\ UNCHANGED <<mainvars, mtvars, srvvars, fx_subject, fx_log>>

FxNext == FxCall

SpecFixed == FxInit /\ [][FxNext]_vars

\* =================================================================
\* web/server.py: jobs, worker threads, kill requests, repo sync
\* =================================================================
\* the commands the job-creating handlers pass to run_make_command: build,
\* test_all and test_specific (clean and reset are test_all with another
\* command string, which run_make_command treats as it treats 'make test')
Commands == {"make build", "make test", "make euler-test=check_dependency"}

\* is_check_dep: the command holds '<distro>-test=check_dependency'
CheckDepCommands ==
  {"make anolis-test=check_dependency", "make euler-test=check_dependency"}

\* if command == 'make build' or is_check_dep
NeedsSync(command) == command = "make build" \/ command \in CheckDepCommands

\* the record a job-creating handler stores
NewJob(command) ==
  [command |-> command, status |-> "queued", exit_code |-> <<>>,
   error |-> FALSE, end_time |-> FALSE]

Worker(id) == <<"worker", id>>

Handler(id) == <<"handler", id>>

Killer(n) == <<"kill", n>>

\* the exit codes of a make process that was not signalled
ExitCodes == {0, 1}

\* -signal.SIGTERM: the return code of a process ended by SIGTERM
SigTermCode == 0 - 15

\* ------------------------------------------------ the job-creating handlers
\* build / test_all / test_specific / clean / reset: take job_lock, store
\* the queued job and persist the table
CreateJob(command) ==
  /\ pc = "idle"
  /\ Len(jobs) < MaxJobs
  /\ job_lock = Free
  /\ job_lock' = Handler(Len(jobs) + 1)
  /\ jobs' = Append(jobs, NewJob(command))
  /\ jobs_file' = jobs'
  /\ UNCHANGED <<mainvars, mtvars, fxvars, boot, job_processes, wpc, proc, kills, torvalds_repo>>

\* leave the with-block and start the worker thread
CreateJobStart(id) ==
  /\ job_lock = Handler(id)
  /\ job_lock' = Free
  /\ wpc' = [wpc EXCEPT ![id] = "resolve_log"]
  /\ UNCHANGED <<mainvars, mtvars, fxvars, boot, jobs, jobs_file, job_processes, proc, kills,
                 torvalds_repo>>

\* ------------------------------------------------------ run_make_command
\* live_log = resolve_live_log_file(job_id, command), outside the try:
\* get_distro_config() opens .distro_config and may raise, which ends the
\* thread
WorkerResolveLog(id, ok) ==
  /\ wpc[id] = "resolve_log"
  /\ wpc' = [wpc EXCEPT ![id] = IF ok THEN "mark_running" ELSE "dead"]
  /\ UNCHANGED <<mainvars, mtvars, fxvars, boot, jobs, jobs_file, job_lock, job_processes, proc,
                 kills, torvalds_repo>>

\* mutant: the running status is stored but the table is not saved
WorkerMarkRunning_nosave(id) ==
  /\ wpc[id] = "mark_running"
  /\ job_lock = Free
  /\ job_lock' = Worker(id)
  /\ jobs' = [jobs EXCEPT ![id].status = "running"]
  /\ wpc' = [wpc EXCEPT ![id] = "mark_running_unlock"]
  /\ UNCHANGED <<mainvars, mtvars, fxvars, boot, jobs_file, job_processes, proc, kills,
                 torvalds_repo>>

\* with job_lock: status = 'running', start_time, live_log_file, _save_jobs
WorkerMarkRunning(id) ==
  /\ wpc[id] = "mark_running"
  /\ job_lock = Free
  /\ job_lock' = Worker(id)
  /\ jobs' = [jobs EXCEPT ![id].status = "running"]
  /\ jobs_file' = jobs'
  /\ wpc' = [wpc EXCEPT ![id] = "mark_running_unlock"]
  /\ UNCHANGED <<mainvars, mtvars, fxvars, boot, job_processes, proc, kills, torvalds_repo>>

WorkerMarkRunningUnlock(id) ==
  /\ wpc[id] = "mark_running_unlock"
  /\ job_lock = Worker(id)
  /\ job_lock' = Free
  /\ wpc' = [wpc EXCEPT ![id] = "open_log"]
  /\ UNCHANGED <<mainvars, mtvars, fxvars, boot, jobs, jobs_file, job_processes, proc, kills,
                 torvalds_repo>>

\* with open(live_log, 'w') as lf, then the choice of syncing the repo
WorkerOpenLog(id, ok) ==
  /\ wpc[id] = "open_log"
  /\ wpc' = [wpc EXCEPT ![id] =
               IF ~ok THEN "except"
               ELSE IF NeedsSync(jobs[id].command) THEN "sync" ELSE "popen"]
  /\ UNCHANGED <<mainvars, mtvars, fxvars, boot, jobs, jobs_file, job_lock, job_processes, proc,
                 kills, torvalds_repo>>

\* ------------------------------------------ _sync_torvalds_repo_to_log
\* Every step below writes to the job's log through _log, and _log (a
\* write and a flush of the open file) may raise like any call in the try.
\* outcome "raise" is an exception inside the try block.

\* if not os.path.exists(TORVALDS_REPO): _clone(); return -- else announce
\* the fetch
SyncStart(id, outcome) ==
  /\ wpc[id] = "sync"
  /\ outcome \in {"ok", "raise"}
  /\ wpc' = [wpc EXCEPT ![id] =
               IF torvalds_repo = "absent" THEN "clone"
               ELSE IF outcome = "ok" THEN "fetch" ELSE "sync_except"]
  /\ UNCHANGED <<mainvars, mtvars, fxvars, boot, jobs, jobs_file, job_lock, job_processes, proc,
                 kills, torvalds_repo>>

\* git fetch --all --tags: return code 0 ends the sync, another one leads
\* to the removal
SyncFetch(id, outcome) ==
  /\ wpc[id] = "fetch"
  /\ outcome \in {"ok", "fail", "raise"}
  /\ wpc' = [wpc EXCEPT ![id] =
               CASE outcome = "ok" -> "popen"
                 [] outcome = "fail" -> "remove"
                 [] outcome = "raise" -> "sync_except"]
  /\ UNCHANGED <<mainvars, mtvars, fxvars, boot, jobs, jobs_file, job_lock, job_processes, proc,
                 kills, torvalds_repo>>

\* sudo rm -rf / shutil.rmtree: on success the directory is gone and the
\* clone follows; a failed removal is logged and ends the sync
SyncRemove(id, outcome) ==
  /\ wpc[id] = "remove"
  /\ outcome \in {"ok", "fail", "raise"}
  /\ torvalds_repo' = IF outcome = "ok" THEN "absent" ELSE torvalds_repo
  /\ wpc' = [wpc EXCEPT ![id] =
               CASE outcome = "ok" -> "clone"
                 [] outcome = "fail" -> "popen"
                 [] outcome = "raise" -> "sync_except"]
  /\ UNCHANGED <<mainvars, mtvars, fxvars, boot, jobs, jobs_file, job_lock, job_processes, proc,
                 kills>>

\* _clone(): git clone --bare; it can succeed only into an absent
\* directory; a failed clone is logged and the sync ends
SyncClone(id, outcome) ==
  /\ wpc[id] = "clone"
  /\ outcome \in {"ok", "fail", "raise"}
  /\ outcome = "ok" => torvalds_repo = "absent"
  /\ torvalds_repo' = IF outcome = "ok" THEN "present" ELSE torvalds_repo
  /\ wpc' = [wpc EXCEPT ![id] = IF outcome = "raise" THEN "sync_except" ELSE "popen"]
  /\ UNCHANGED <<mainvars, mtvars, fxvars, boot, jobs, jobs_file, job_lock, job_processes, proc,
                 kills>>

\* except Exception as exc: _log(...) -- the handler's own _log may raise,
\* and that exception leaves _sync_torvalds_repo_to_log
SyncExcept(id, ok) ==
  /\ wpc[id] = "sync_except"
  /\ wpc' = [wpc EXCEPT ![id] = IF ok THEN "popen" ELSE "except"]
  /\ UNCHANGED <<mainvars, mtvars, fxvars, boot, jobs, jobs_file, job_lock, job_processes, proc,
                 kills, torvalds_repo>>

\* ------------------------------------------ run_make_command, continued
\* process = subprocess.Popen(command, ...)
WorkerPopen(id, ok) ==
  /\ wpc[id] = "popen"
  /\ proc' = IF ok THEN [proc EXCEPT ![id] = [st |-> "alive", code |-> 0, sig |-> FALSE]]
             ELSE proc
  /\ wpc' = [wpc EXCEPT ![id] = IF ok THEN "register" ELSE "except"]
  /\ UNCHANGED <<mainvars, mtvars, fxvars, boot, jobs, jobs_file, job_lock, job_processes, kills,
                 torvalds_repo>>

\* with job_lock: job_processes[job_id] = process
WorkerRegister(id) ==
  /\ wpc[id] = "register"
  /\ job_lock = Free
  /\ job_lock' = Worker(id)
  /\ job_processes' = job_processes \cup {id}
  /\ wpc' = [wpc EXCEPT ![id] = "register_unlock"]
  /\ UNCHANGED <<mainvars, mtvars, fxvars, boot, jobs, jobs_file, proc, kills, torvalds_repo>>

WorkerRegisterUnlock(id) ==
  /\ wpc[id] = "register_unlock"
  /\ job_lock = Worker(id)
  /\ job_lock' = Free
  /\ wpc' = [wpc EXCEPT ![id] = "stream"]
  /\ UNCHANGED <<mainvars, mtvars, fxvars, boot, jobs, jobs_file, job_processes, proc, kills,
                 torvalds_repo>>

\* the make process ends: by SIGTERM when it was signalled while alive,
\* with a code of its own otherwise; it stays a zombie until waited for
ProcessExits(id, code) ==
  /\ proc[id].st = "alive"
  /\ code \in (IF proc[id].sig THEN {SigTermCode} ELSE ExitCodes)
  /\ proc' = [proc EXCEPT ![id].st = "zombie", ![id].code = code]
  /\ UNCHANGED <<mainvars, mtvars, fxvars, boot, jobs, jobs_file, job_lock, job_processes, wpc,
                 kills, torvalds_repo>>

\* for line in process.stdout: lf.write(line); lf.flush() -- a write raises
WorkerStreamFails(id) ==
  /\ wpc[id] = "stream"
  /\ wpc' = [wpc EXCEPT ![id] = "except"]
  /\ UNCHANGED <<mainvars, mtvars, fxvars, boot, jobs, jobs_file, job_lock, job_processes, proc,
                 kills, torvalds_repo>>

\* stdout is drained, process.wait() reaps the process, the trailing
\* separator is written (or that write raises)
WorkerWait(id, ok) ==
  /\ wpc[id] = "stream"
  /\ proc[id].st = "zombie"
  /\ proc' = [proc EXCEPT ![id].st = "reaped"]
  /\ wpc' = [wpc EXCEPT ![id] = IF ok THEN "final" ELSE "except"]
  /\ UNCHANGED <<mainvars, mtvars, fxvars, boot, jobs, jobs_file, job_lock, job_processes, kills,
                 torvalds_repo>>

\* the status run_make_command derives from the exit code
StatusOfExit(exit_code) ==
  IF exit_code \in {0 - 9, 0 - 15} THEN "killed"
  ELSE IF exit_code = 0 THEN "completed" ELSE "failed"

\* with job_lock: pop the handle, set status, exit_code, end_time, log_file
WorkerFinal(id) ==
  /\ wpc[id] = "final"
  /\ job_lock = Free
  /\ job_lock' = Worker(id)
  /\ job_processes' = job_processes \ {id}
  /\ jobs' = [jobs EXCEPT ![id].status = StatusOfExit(proc[id].code),
                          ![id].exit_code = <<proc[id].code>>,
                          ![id].end_time = TRUE]
  /\ jobs_file' = jobs'
  /\ wpc' = [wpc EXCEPT ![id] = "final_unlock"]
  /\ UNCHANGED <<mainvars, mtvars, fxvars, boot, proc, kills, torvalds_repo>>

\* except Exception as e: with job_lock: status = 'failed', error,
\* end_time, log_file, pop the handle, _save_jobs
WorkerExcept(id) ==
  /\ wpc[id] = "except"
  /\ job_lock = Free
  /\ job_lock' = Worker(id)
  /\ job_processes' = job_processes \ {id}
  /\ jobs' = [jobs EXCEPT ![id].status = "failed",
                          ![id].error = TRUE,
                          ![id].end_time = TRUE]
  /\ jobs_file' = jobs'
  /\ wpc' = [wpc EXCEPT ![id] = "final_unlock"]
  /\ UNCHANGED <<mainvars, mtvars, fxvars, boot, proc, kills, torvalds_repo>>

\* the with-block ends and the thread returns
WorkerDone(id) ==
  /\ wpc[id] = "final_unlock"
  /\ job_lock = Worker(id)
  /\ job_lock' = Free
  /\ wpc' = [wpc EXCEPT ![id] = "done"]
  /\ UNCHANGED <<mainvars, mtvars, fxvars, boot, jobs, jobs_file, job_processes, proc, kills,
                 torvalds_repo>>

\* ---------------------------------------------------------------- kill_job
\* mutant: a running job is signalled whether or not a handle is registered
KillCheck_nohandle(n, id) ==
  /\ pc = "idle"
  /\ kills[n].pc = "idle"
  /\ job_lock = Free
  /\ kills' = [kills EXCEPT ![n] =
                 IF id > Len(jobs) THEN [pc |-> "done", job |-> id, resp |-> 404]
                 ELSE IF jobs[id].status # "running"
                 THEN [pc |-> "done", job |-> id, resp |-> 400]
                 ELSE [pc |-> "signal", job |-> id, resp |-> 0]]
  /\ UNCHANGED <<mainvars, mtvars, fxvars, boot, jobs, jobs_file, job_lock, job_processes, wpc,
                 proc, torvalds_repo>>

\* the first with-block: 404 unknown job, 400 not running, 404 no handle,
\* or the handle is taken and the lock released
KillCheck(n, id) ==
  /\ pc = "idle"
  /\ kills[n].pc = "idle"
  /\ job_lock = Free
  /\ kills' = [kills EXCEPT ![n] =
                 IF id > Len(jobs) THEN [pc |-> "done", job |-> id, resp |-> 404]
                 ELSE IF jobs[id].status # "running"
                 THEN [pc |-> "done", job |-> id, resp |-> 400]
                 ELSE IF id \notin job_processes
                 THEN [pc |-> "done", job |-> id, resp |-> 404]
                 ELSE [pc |-> "signal", job |-> id, resp |-> 0]]
  /\ UNCHANGED <<mainvars, mtvars, fxvars, boot, jobs, jobs_file, job_lock, job_processes, wpc,
                 proc, torvalds_repo>>

\* os.killpg(os.getpgid(process.pid), signal.SIGTERM): raises when the
\* process was reaped, and may raise otherwise (500); a zombie takes the
\* signal without effect
KillSignal(n, ok) ==
  /\ kills[n].pc = "signal"
  /\ ok => proc[kills[n].job].st \in {"alive", "zombie"}
  /\ proc' = IF ok /\ proc[kills[n].job].st = "alive"
             THEN [proc EXCEPT ![kills[n].job].sig = TRUE]
             ELSE proc
  /\ kills' = [kills EXCEPT ![n].pc = IF ok THEN "update" ELSE "done",
                            ![n].resp = IF ok THEN 0 ELSE 500]
  /\ UNCHANGED <<mainvars, mtvars, fxvars, boot, jobs, jobs_file, job_lock, job_processes, wpc,
                 torvalds_repo>>

\* mutant: the second with-block leaves the handle in the process table
KillUpdate_nopop(n) ==
  /\ kills[n].pc = "update"
  /\ job_lock = Free
  /\ job_lock' = Killer(n)
  /\ jobs' = [jobs EXCEPT ![kills[n].job].status = "killed",
                          ![kills[n].job].end_time = TRUE]
  /\ jobs_file' = jobs'
  /\ kills' = [kills EXCEPT ![n].pc = "update_unlock"]
  /\ UNCHANGED <<mainvars, mtvars, fxvars, boot, job_processes, wpc, proc, torvalds_repo>>

\* the second with-block: status = 'killed', end_time, pop, _save_jobs
KillUpdate(n) ==
  /\ kills[n].pc = "update"
  /\ job_lock = Free
  /\ job_lock' = Killer(n)
  /\ jobs' = [jobs EXCEPT ![kills[n].job].status = "killed",
                          ![kills[n].job].end_time = TRUE]
  /\ job_processes' = job_processes \ {kills[n].job}
  /\ jobs_file' = jobs'
  /\ kills' = [kills EXCEPT ![n].pc = "update_unlock"]
  /\ UNCHANGED <<mainvars, mtvars, fxvars, boot, wpc, proc, torvalds_repo>>

\* the with-block ends: 200 'Job killed successfully'
KillDone(n) ==
  /\ kills[n].pc = "update_unlock"
  /\ job_lock = Killer(n)
  /\ job_lock' = Free
  /\ kills' = [kills EXCEPT ![n].pc = "done", ![n].resp = 200]
  /\ UNCHANGED <<mainvars, mtvars, fxvars, boot, jobs, jobs_file, job_processes, wpc, proc,
                 torvalds_repo>>

\* the server is up, no job yet; the repo directory may exist from before
JobsInit ==
  /\ MainIdle
  /\ MtIdle
  /\ FxIdle
  /\ boot = "up"
  /\ jobs = <<>>
  /\ jobs_file = <<>>
  /\ job_lock = Free
  /\ job_processes = {}
  /\ wpc = [id \in 1..MaxJobs |-> "none"]
  /\ proc = [id \in 1..MaxJobs |-> NoProc]
  /\ kills = [n \in 1..MaxKills |-> NoKill]
  /\ torvalds_repo \in {"absent", "present"}

JobsNext ==
  \/ \E command \in Commands : CreateJob(command)
  \/ \E id \in 1..MaxJobs :
       \/ CreateJobStart(id)
       \/ \E ok \in BOOLEAN : WorkerResolveLog(id, ok)
       \/ WorkerMarkRunning(id)
       \/ WorkerMarkRunningUnlock(id)
       \/ \E ok \in BOOLEAN : WorkerOpenLog(id, ok)
       \/ \E outcome \in {"ok", "raise"} : SyncStart(id, outcome)
       \/ \E outcome \in {"ok", "fail", "raise"} : SyncFetch(id, outcome)
       \/ \E outcome \in {"ok", "fail", "raise"} : SyncRemove(id, outcome)
       \/ \E outcome \in {"ok", "fail", "raise"} : SyncClone(id, outcome)
       \/ \E ok \in BOOLEAN : SyncExcept(id, ok)
       \/ \E ok \in BOOLEAN : WorkerPopen(id, ok)
       \/ WorkerRegister(id)
       \/ WorkerRegisterUnlock(id)
       \/ \E code \in ExitCodes \cup {SigTermCode} : ProcessExits(id, code)
       \/ WorkerStreamFails(id)
       \/ \E ok \in BOOLEAN : WorkerWait(id, ok)
       \/ WorkerFinal(id)
       \/ WorkerExcept(id)
       \/ WorkerDone(id)
  \/ \E n \in 1..MaxKills :
       \/ \E id \in 1..(MaxJobs + 1) : KillCheck(n, id)
       \/ \E ok \in BOOLEAN : KillSignal(n, ok)
       \/ KillUpdate(n)
       \/ KillDone(n)

SpecJobs == JobsInit /\ [][JobsNext]_vars

\* a step of the worker thread of job id, wherever the thread stands
WorkerStep(id) ==
  \/ CreateJobStart(id)
  \/ \E ok \in BOOLEAN : WorkerResolveLog(id, ok)
  \/ WorkerMarkRunning(id)
  \/ WorkerMarkRunningUnlock(id)
  \/ \E ok \in BOOLEAN : WorkerOpenLog(id, ok)
  \/ \E outcome \in {"ok", "raise"} : SyncStart(id, outcome)
  \/ \E outcome \in {"ok", "fail", "raise"} : SyncFetch(id, outcome)
  \/ \E outcome \in {"ok", "fail", "raise"} : SyncRemove(id, outcome)
  \/ \E outcome \in {"ok", "fail", "raise"} : SyncClone(id, outcome)
  \/ \E ok \in BOOLEAN : SyncExcept(id, ok)
  \/ \E ok \in BOOLEAN : WorkerPopen(id, ok)
  \/ WorkerRegister(id)
  \/ WorkerRegisterUnlock(id)
  \/ WorkerStreamFails(id)
  \/ \E ok \in BOOLEAN : WorkerWait(id, ok)
  \/ WorkerFinal(id)
  \/ WorkerExcept(id)
  \/ WorkerDone(id)

\* a step of the kill handler n after it took the request up
KillStep(n) ==
  \/ \E ok \in BOOLEAN : KillSignal(n, ok)
  \/ KillUpdate(n)
  \/ KillDone(n)

\* the server under a fair scheduler: every thread that can take a step
\* takes one, and every started make process exits
SpecJobsFair ==
  /\ JobsInit
  /\ [][JobsNext]_vars
  /\ \A id \in 1..MaxJobs :
       /\ WF_vars(WorkerStep(id))
       /\ WF_vars(\E code \in ExitCodes \cup {SigTermCode} : ProcessExits(id, code))
  /\ \A n \in 1..MaxKills : WF_vars(KillStep(n))


\* ---------------------------------------------- start-up of the server
\* the records the handlers and threads above persist for one job
PersistedJobs ==
  UNION {
    {NewJob(command),
     [NewJob(command) EXCEPT !.status = "running"],
     [NewJob(command) EXCEPT !.status = "failed", !.error = TRUE, !.end_time = TRUE],
     [NewJob(command) EXCEPT !.status = "killed", !.end_time = TRUE]}
    \cup {[NewJob(command) EXCEPT !.status = StatusOfExit(code),
                                  !.exit_code = <<code>>,
                                  !.end_time = TRUE] :
            code \in ExitCodes \cup {SigTermCode}}
    : command \in Commands}

\* the status values the start-up code treats as orphaned
Orphaned == {"running", "queued"}

\* mutant: only 'running' jobs are marked
MarkOrphans_running(table) ==
  [n \in 1..Len(table) |->
     IF table[n].status = "running"
     THEN [table[n] EXCEPT !.status = "failed", !.error = TRUE, !.end_time = TRUE]
     ELSE table[n]]

\* for _jid, _job in jobs.items(): a 'running' or 'queued' job becomes
\* failed, with the restart error text and an end_time
MarkOrphans(table) ==
  [n \in 1..Len(table) |->
     IF table[n].status \in Orphaned
     THEN [table[n] EXCEPT !.status = "failed", !.error = TRUE, !.end_time = TRUE]
     ELSE table[n]]

\* jobs = _load_jobs(): the file's table, or {} when the file is missing
\* or cannot be read or parsed
BootLoad(readable) ==
  /\ boot = "down"
  /\ jobs' = IF readable THEN jobs_file ELSE <<>>
  /\ boot' = "loaded"
  /\ UNCHANGED <<mainvars, mtvars, fxvars, jobs_file, job_lock, job_processes, wpc, proc,
                 kills, torvalds_repo>>

\* the loop over the loaded jobs, then if _changed: _save_jobs(jobs);
\* _save_jobs swallows a failing write with a warning, the file is then
\* what it was
BootMark(saved) ==
  /\ boot = "loaded"
  /\ jobs' = MarkOrphans(jobs)
  /\ jobs_file' = IF jobs' # jobs /\ saved THEN jobs' ELSE jobs_file
  /\ boot' = "up"
  /\ UNCHANGED <<mainvars, mtvars, fxvars, job_lock, job_processes, wpc, proc, kills,
                 torvalds_repo>>

\* the server process starts with the jobs file a previous process left
BootInit ==
  /\ MainIdle
  /\ MtIdle
  /\ FxIdle
  /\ boot = "down"
  /\ jobs = <<>>
  /\ jobs_file \in SeqsUpTo(PersistedJobs, MaxJobs)
  /\ job_lock = Free
  /\ job_processes = {}
  /\ wpc = [id \in 1..MaxJobs |-> "none"]
  /\ proc = [id \in 1..MaxJobs |-> NoProc]
  /\ kills = [n \in 1..MaxKills |-> NoKill]
  /\ torvalds_repo = "absent"

BootNext ==
  \/ \E readable \in BOOLEAN : BootLoad(readable)
  \/ \E saved \in BOOLEAN : BootMark(saved)

SpecBoot == BootInit /\ [][BootNext]_vars


\* =================================================================
\* Properties
\* =================================================================
\* the downstream one-line log the verdicts of this run are taken against
DownstreamLog == OneLineLog(user)

\* the input the dependency loop is working on
CurrentHash == resolved[k][1]

\* C1: an input's verdict is PASS exactly when every REAL entry of its
\* deduplicated dependency list has its subject in the downstream one-line
\* log; AMIGOS entries, fixed or not, play no part.
C1_VerdictIffRealFixed ==
  \A n \in 1..Len(results) :
    (results[n].verdict = "PASS") <=>
      (\A m \in 1..Len(results[n].deps) :
         results[n].deps[m].kind = "REAL" =>
           Contains(DownstreamLog, results[n].deps[m].subject))

\* a PASS with a fixed REAL entry beside an AMIGOS entry that is not fixed
C1_Witness ==
  \E n \in 1..Len(results) :
    /\ results[n].verdict = "PASS"
    /\ \E m \in 1..Len(results[n].deps) :
         /\ results[n].deps[m].kind = "REAL"
         /\ Contains(DownstreamLog, results[n].deps[m].subject)
    /\ \E m \in 1..Len(results[n].deps) :
         /\ results[n].deps[m].kind = "AMIGOS"
         /\ ~Contains(DownstreamLog, results[n].deps[m].subject)

\* the candidate is not the input itself
NotSelf(c) == Lower(c.full_hash) # Lower(CurrentHash)

\* the candidate's text carries a Fixes: marker naming the input
Marked(c) ==
  has_real_fixes_reference(Prefix(CurrentHash, 7), c.subject \o <<NL>> \o c.body)

\* C2: a candidate other than the input whose text satisfies the
\* explicit-marker predicate is recorded, and recorded as REAL, whatever
\* else its text holds.
C2_MarkerIsReal ==
  pc = "verdict" =>
    \A n \in 1..Len(candidates) :
      (NotSelf(candidates[n]) /\ Marked(candidates[n])) =>
        /\ \E m \in 1..Len(unique) : unique[m].full_hash = candidates[n].full_hash
        /\ \A m \in 1..Len(unique) :
             unique[m].full_hash = candidates[n].full_hash => unique[m].kind = "REAL"
        /\ \A m \in 1..Len(deps_found) :
             deps_found[m].full_hash = candidates[n].full_hash =>
               deps_found[m].kind = "REAL"

\* a marked candidate whose text also mentions the token behind a '#'
C2_Witness ==
  /\ pc = "verdict"
  /\ \E n \in 1..Len(candidates) :
       /\ NotSelf(candidates[n])
       /\ Marked(candidates[n])
       /\ Contains(candidates[n].body, <<HASH, SP>> \o Prefix(CurrentHash, 7))
       /\ \E m \in 1..Len(unique) :
            unique[m].full_hash = candidates[n].full_hash /\ unique[m].kind = "REAL"

\* C3: the dependency list of an input never holds an entry whose full
\* hash is, letter case aside, the input's own full hash.
C3_SelfExcluded ==
  /\ \A n \in 1..Len(results) :
       \A m \in 1..Len(results[n].deps) :
         Lower(results[n].deps[m].full_hash) # Lower(results[n].full_hash)
  /\ pc = "verdict" =>
       /\ \A m \in 1..Len(unique) : Lower(unique[m].full_hash) # Lower(CurrentHash)
       /\ \A m \in 1..Len(deps_found) :
            Lower(deps_found[m].full_hash) # Lower(CurrentHash)

\* the search returned the input itself, whose message carries a Fixes:
\* marker naming it, together with another commit that was recorded
C3_Witness ==
  /\ pc = "verdict"
  /\ unique # <<>>
  /\ \E n \in 1..Len(candidates) :
       /\ Lower(candidates[n].full_hash) = Lower(CurrentHash)
       /\ Marked(candidates[n])


\* on the line, a '#' stands before every occurrence of the token
\* (occurrences taken without regard to letter case, as the search does)
HashBeforeToken(line, tok) ==
  \A q \in 1..Len(line) :
    MatchAtCI(line, q, tok) => \E p \in 1..(q - 1) : line[p] = HASH

\* every line of the candidate's subject+body text that holds the token
\* holds it behind a '#'
OnlyCommented(c, tok) ==
  LET lines == SplitLines(c.subject \o <<NL>> \o c.body)
  IN \A n \in 1..Len(lines) : HashBeforeToken(lines[n], tok)

\* PASS / FAIL of a dependency list against a downstream log
VerdictOf(deps, log) ==
  IF \A m \in 1..Len(deps) : deps[m].kind = "REAL" => Contains(log, deps[m].subject)
  THEN "PASS" ELSE "FAIL"

\* the result recorded last, and the candidates it was computed from
LastResult == results[Len(results)]

\* C4: a candidate that mentions the token only behind '#' is entered in
\* the dependency list under neither kind, and the input's list and verdict
\* are those the remaining candidates alone would give.
C4_CommentedDiscarded ==
  /\ pc = "verdict" =>
       \A n \in 1..Len(candidates) :
         OnlyCommented(candidates[n], Prefix(CurrentHash, 7)) =>
           /\ \A m \in 1..Len(unique) : unique[m].full_hash # candidates[n].full_hash
           /\ \A m \in 1..Len(deps_found) :
                deps_found[m].full_hash # candidates[n].full_hash
  /\ (pc \in {"deps", "done"} /\ results # <<>>) =>
       LET tok == Prefix(LastResult.full_hash, 7)
           others == SelectSeq(candidates, LAMBDA c : ~OnlyCommented(c, tok))
           alone == Deduplicate(ClassifyCandidates(others, LastResult.full_hash, tok), {})
       IN /\ LastResult.deps = alone
          /\ LastResult.verdict = VerdictOf(alone, DownstreamLog)

\* a result computed from a commented-only candidate and from one that was recorded
C4_Witness ==
  /\ pc \in {"deps", "done"}
  /\ results # <<>>
  /\ LastResult.deps # <<>>
  /\ \E n \in 1..Len(candidates) :
       /\ OnlyCommented(candidates[n], Prefix(LastResult.full_hash, 7))
       /\ Contains(candidates[n].body, Prefix(LastResult.full_hash, 7))

\* positions of deps whose full hash occurs at no earlier position
FirstPositions(deps) ==
  {n \in 1..Len(deps) : \A q \in 1..(n - 1) : deps[q].full_hash # deps[n].full_hash}

\* the m-th smallest element of a set of numbers
NthSmallest(S, m) == CHOOSE x \in S : Cardinality({y \in S : y < x}) = m - 1

PreviousLog == OneLineLog(SubSeq(user, Len(added) + 1, Len(user)))

\* the second invocation has finished, one downstream commit having been
\* pushed since the first
SecondRunDone == pc = "done" /\ run = "next" /\ Len(added) = 1

\* entry m of input n was an unmet REAL dependency in the previous invocation
WasUnmetReal(n, m) ==
  /\ prev[n].deps[m].kind = "REAL"
  /\ ~Contains(PreviousLog, prev[n].deps[m].subject)

\* the pushed commit's subject equals an unmet REAL dependency's subject of input n
PushedFixes(n) ==
  /\ prev[n].verdict = "FAIL"
  /\ \E m \in 1..Len(prev[n].deps) :
       WasUnmetReal(n, m) /\ added[1].subject = prev[n].deps[m].subject

\* C6 as stated: a downstream commit whose subject equals the subject of an
\* unmet REAL dependency of a FAIL input turns that input's verdict to PASS
\* on the next run.
C6_AsStated ==
  SecondRunDone =>
    \A n \in 1..Len(prev) :
      PushedFixes(n) => (n <= Len(results) /\ results[n].verdict = "PASS")

\* C6 amended: after such a push the input's verdict is PASS exactly when
\* every REAL dependency that was unmet is found in the new downstream log,
\* as it is when the matched one was the only one unmet; with another REAL
\* dependency still unmet the verdict stays FAIL.
C6_FlipsWhenNoOtherUnmet ==
  SecondRunDone =>
    /\ Len(results) = Len(prev)
    /\ \A n \in 1..Len(prev) :
         PushedFixes(n) =>
           /\ results[n].full_hash = prev[n].full_hash
           /\ (results[n].verdict = "PASS") <=>
                (\A m \in 1..Len(prev[n].deps) :
                   WasUnmetReal(n, m) => Contains(DownstreamLog, prev[n].deps[m].subject))
           /\ (\A m \in 1..Len(prev[n].deps) :
                 WasUnmetReal(n, m) => prev[n].deps[m].subject = added[1].subject)
                => results[n].verdict = "PASS"

\* a FAIL turned to PASS by the push, an AMIGOS entry staying unfixed
C6_Witness ==
  /\ SecondRunDone
  /\ \E n \in 1..Len(prev) :
       /\ PushedFixes(n)
       /\ n <= Len(results)
       /\ results[n].verdict = "PASS"
       /\ \E m \in 1..Len(results[n].deps) :
            /\ results[n].deps[m].kind = "AMIGOS"
            /\ ~Contains(DownstreamLog, results[n].deps[m].subject)

\* the verdicts of the two invocations agree, input by input
SameVerdicts ==
  /\ Len(results) = Len(prev)
  /\ \A n \in 1..Len(prev) :
       /\ results[n].full_hash = prev[n].full_hash
       /\ results[n].verdict = prev[n].verdict

\* C7 as stated: a pushed downstream commit whose subject equals no
\* dependency's subject changes no verdict.
C7_AsStated ==
  SecondRunDone =>
    ((\A n \in 1..Len(prev) : \A m \in 1..Len(prev[n].deps) :
        prev[n].deps[m].subject # added[1].subject)
     => SameVerdicts)

\* C7 amended: a pushed downstream commit whose one-line log line holds no
\* dependency's subject as a substring changes no verdict.
C7_UnrelatedPushKeepsVerdicts ==
  SecondRunDone =>
    ((\A n \in 1..Len(prev) : \A m \in 1..Len(prev[n].deps) :
        ~Contains(OneLineLog(added), prev[n].deps[m].subject))
     => SameVerdicts)

\* an input with an unmet REAL dependency, and a push that names none of
\* the dependencies' subjects
C7_Witness ==
  /\ SecondRunDone
  /\ \A n \in 1..Len(prev) : \A m \in 1..Len(prev[n].deps) :
       ~Contains(OneLineLog(added), prev[n].deps[m].subject)
  /\ \E n \in 1..Len(prev) : prev[n].verdict = "FAIL"
  /\ SameVerdicts


\* the reference names a commit of the upstream history
Resolvable(c) == \E n \in 1..Len(stable) : MatchAt(stable[n].full_hash, 1, c)

\* the upstream commit a resolvable reference names
CommitOf(c) ==
  stable[CHOOSE n \in 1..Len(stable) : MatchAt(stable[n].full_hash, 1, c)]

ResolvableInputs == SelectSeq(commits, Resolvable)

UnresolvableInputs == SelectSeq(commits, LAMBDA c : ~Resolvable(c))

Warnings == SelectSeq(console, LAMBDA e : e.ev = "warning")

Searches == SelectSeq(queries, LAMBDA q : q.op = "grep")

\* C8: an input that does not resolve upstream is warned about and skipped
\* (no .full_commits record, no search, no result), the other inputs are
\* processed in input order, and the run reaches its end.
C8_UnresolvableSkipped ==
  /\ input_src.exists => pc # "exit1"
  /\ pc \in {"deps", "verdict", "done"} =>
       LET named == [n \in 1..Len(ResolvableInputs) |-> CommitOf(ResolvableInputs[n])]
       IN /\ i = Len(commits) + 1
          /\ Len(resolved) = Len(named)
          /\ \A n \in 1..Len(resolved) : resolved[n][1] = named[n].full_hash
          /\ fs.full_commits =
               Concat([n \in 1..Len(named) |->
                         named[n].full_hash \o <<SP>> \o named[n].subject \o <<NL>>])
          /\ [n \in 1..Len(Warnings) |-> Warnings[n].text] = UnresolvableInputs
          /\ pc = "done" =>
               /\ [n \in 1..Len(results) |-> results[n].full_hash] =
                    [n \in 1..Len(named) |-> named[n].full_hash]
               /\ [n \in 1..Len(Searches) |-> Searches[n].arg] =
                    [n \in 1..Len(named) |-> Prefix(named[n].full_hash, 7)]
               /\ console[Len(console)].ev = "done"

\* a finished run whose first input did not resolve and whose second did
C8_Witness ==
  /\ pc = "done"
  /\ Len(commits) = 2
  /\ ~Resolvable(commits[1])
  /\ Resolvable(commits[2])
  /\ Len(Warnings) = 1
  /\ Len(results) = 1
  /\ results[1].deps # <<>>

\* C9: an input whose deduplicated list is empty gets PASS, nothing is
\* appended to .dep_log for it, and the loop goes on to the next input.
C9_EmptyListPasses ==
  /\ [](\A n \in 1..Len(results) : results[n].deps = <<>> => results[n].verdict = "PASS")
  /\ [][(pc = "verdict" /\ unique = <<>>) =>
          /\ results' = Append(results, [full_hash |-> CurrentHash, deps |-> <<>>,
                                         verdict |-> "PASS"])
          /\ console' = Append(console, Event("PASS_NODEPS", <<>>, <<>>))
          /\ fs' = fs
          /\ pc' = "deps"
          /\ k' = k + 1]_vars

\* an auto-PASS because every candidate was discarded, with an input still to come
C9_Witness ==
  /\ pc = "deps"
  /\ results # <<>>
  /\ LastResult.deps = <<>>
  /\ LastResult.verdict = "PASS"
  /\ candidates # <<>>
  /\ k <= Len(resolved)


\* C10: on every short token and text, a true explicit-marker predicate
\* (has_real_fixes_reference) comes with a true non-commented-occurrence
\* predicate (short7_in_text_non_commented).
C10_MarkerImpliesNonCommented ==
  (mt_pc = "done" /\ mt_real) => mt_nc


\* the token occurrence at position q runs on into further word characters
TokenRunsOn(text, q, tok) ==
  q + Len(tok) <= Len(text) /\ IsWord(text[q + Len(tok)])

\* the keyword "Fixes:" (any letter case), then whitespace, ends just before q
MarkerBefore(text, q) ==
  \E m \in 0..(q - 1) :
    /\ AllSpace(text, q - m, q - 1)
    /\ MatchAtCI(text, q - m - Len(FixesKeyword), FixesKeyword)

\* C11: the explicit-marker predicate is true only on the strength of a
\* marker whose token is a whole word: some occurrence of the token follows
\* the marker keyword and is not immediately followed by a word character.
C11_WholeWordOnly ==
  (mt_pc \in {"real_done", "done"} /\ mt_real) =>
    \E q \in 1..Len(mt_text) :
      /\ MatchAtCI(mt_text, q, mt_short7)
      /\ MarkerBefore(mt_text, q)
      /\ ~TokenRunsOn(mt_text, q, mt_short7)

\* the predicate was false on a marker line naming the commit by a longer
\* abbreviation
C11_Witness ==
  /\ mt_pc = "done"
  /\ ~mt_real
  /\ \E q \in 1..Len(mt_text) :
       /\ MatchAtCI(mt_text, q, mt_short7)
       /\ MarkerBefore(mt_text, q)
       /\ TokenRunsOn(mt_text, q, mt_short7)
  /\ AtLineStart(mt_text, 1) /\ MatchAtCI(mt_text, 1, FixesKeyword)

\* the line is: optional whitespace, "Fixes:" in any letter case, optional
\* whitespace, the token
LineIsMarker(line, tok) ==
  \E a \in 0..Len(line) : \E b \in 0..Len(line) :
    /\ AllSpace(line, 1, a)
    /\ MatchAtCI(line, a + 1, FixesKeyword)
    /\ a + Len(FixesKeyword) + b <= Len(line)
    /\ AllSpace(line, a + Len(FixesKeyword) + 1, a + Len(FixesKeyword) + b)
    /\ MatchAtCI(line, a + Len(FixesKeyword) + b + 1, tok)

\* C12: the explicit-marker predicate is true only if one single line of
\* the text holds the marker keyword, the colon and the token.
C12_MarkerOnOneLine ==
  (mt_pc = "done" /\ mt_real) =>
    \E n \in 1..Len(SplitLines(mt_text)) : LineIsMarker(SplitLines(mt_text)[n], mt_short7)


Shows == SelectSeq(queries, LAMBDA q : q.op = "show")

\* how many of the first n inputs resolve upstream
ResolvableAmong(n) == Len(SelectSeq(SubSeq(commits, 1, n), Resolvable))

\* C13 as stated: when the first upstream query for an input is issued
\* (its resolution), every earlier input that resolves has had its search
\* issued and its verdict computed.
C13_AsStated ==
  Shows # <<>> =>
    /\ Len(Searches) >= ResolvableAmong(Len(Shows) - 1)
    /\ Len(results) >= ResolvableAmong(Len(Shows) - 1)

\* C13 amended: the run has two sequential phases.  First every input is
\* resolved, in input order, and no search is issued meanwhile; then, in
\* the order of the resolved inputs, each input's search is issued and its
\* verdict computed before the next input's search.
C13_TwoPhases ==
  /\ pc \in {"resolve", "deps", "verdict", "done"} =>
       /\ [n \in 1..Len(Shows) |-> Shows[n].arg] = SubSeq(commits, 1, i - 1)
       /\ \A a \in 1..(Len(queries) - 1) :
            queries[a].op = "grep" => queries[a + 1].op = "grep"
       /\ [n \in 1..Len(Searches) |-> Searches[n].arg] =
            [n \in 1..Len(Searches) |-> Prefix(resolved[n][1], 7)]
  /\ pc = "resolve" => (Searches = <<>> /\ results = <<>>)
  /\ pc = "verdict" => (Len(Searches) = k /\ Len(results) = k - 1)
  /\ pc \in {"deps", "done"} =>
       (Len(Shows) = Len(commits) /\ Len(Searches) = k - 1 /\ Len(results) = k - 1)

\* the second input's search has been issued, after the first input's
\* verdict and after both resolutions
C13_Witness ==
  /\ pc = "verdict"
  /\ k = 2
  /\ Len(Shows) = 2
  /\ Len(Searches) = 2
  /\ Len(results) = 1
  /\ commits[1] # commits[2]


\* the dependency list a run computes for the input with full hash h when
\* it is the only input: search, classification, deduplication from empty
SoloDeps(h) ==
  Deduplicate(
    ClassifyCandidates(git_find_stable_commits_mentioning(Prefix(h, 7), stable),
                       h, Prefix(h, 7)),
    {})

\* C14: at the end of a run the dependency list and the verdict recorded
\* for each input are those of the input processed alone: a function of its
\* full hash and of the two histories, whatever the batch and the input's
\* position in it.
C14_IndependentOfBatch ==
  pc = "done" =>
    \A n \in 1..Len(results) :
      LET alone == SoloDeps(results[n].full_hash)
      IN /\ results[n].deps = alone
         /\ results[n].verdict = VerdictOf(alone, DownstreamLog)

\* a batch that repeats an input: both copies got the same list of two or
\* more entries and the same FAIL
C14_Witness ==
  /\ pc = "done"
  /\ Len(commits) = 2
  /\ commits[1] = commits[2]
  /\ Len(results) = 2
  /\ results[1] = results[2]
  /\ Len(results[1].deps) >= 2
  /\ results[1].verdict = "FAIL"


\* the .dep_log records of a dependency list: 14 characters of the full
\* hash, a space, the subject, a line break, per entry
RecordsOf(deps) ==
  Concat([m \in 1..Len(deps) |->
            SubSeq(deps[m].full_hash, 1, 14) \o <<SP>> \o deps[m].subject \o <<NL>>])

\* the records of all the inputs processed so far, in input order
RecordsOfResults == Concat([n \in 1..Len(results) |-> RecordsOf(results[n].deps)])

\* s is an initial part of t
IsPrefixOf(s, t) == Len(s) <= Len(t) /\ SubSeq(t, 1, Len(s)) = s

\* C15: at the end of a run .dep_log holds exactly the records of every
\* resolved input's deduplicated list, by input order and then list order,
\* and nothing of an earlier run; in the dependency phase it holds the
\* records written so far and changes only by appending.
C15_DepLogExact ==
  /\ [](/\ pc \in {"deps", "done"} => fs.dep_log = RecordsOfResults
        /\ pc = "verdict" =>
             fs.dep_log = RecordsOfResults \o RecordsOf(SubSeq(unique, 1, j - 1)))
  /\ [][(pc \in {"deps", "verdict"}) => IsPrefixOf(fs.dep_log, fs'.dep_log)]_vars

\* the end of a second run in the same directory: two inputs with
\* dependencies, the file holding their records once
C15_Witness ==
  /\ pc = "done"
  /\ run = "next"
  /\ Len(results) = 2
  /\ Len(results[1].deps) >= 2
  /\ results[2].deps # <<>>
  /\ results[1].deps # results[2].deps
  /\ fs.dep_log = RecordsOf(results[1].deps) \o RecordsOf(results[2].deps)


\* the second invocation has finished and nothing was pushed in between
RerunDone == pc = "done" /\ run = "next" /\ added = <<>>

\* no two entries of the list share a full hash
OnePerHash(deps) ==
  \A a, b \in 1..Len(deps) : a # b => deps[a].full_hash # deps[b].full_hash

\* C16: a second run with the same inputs against unchanged histories
\* records, input by input, the same dependency list in the same order and
\* the same verdict as the first, each list holding one entry per full hash.
C16_RerunIdentical ==
  RerunDone =>
    /\ Len(results) = Len(prev)
    /\ \A n \in 1..Len(prev) :
         /\ results[n].full_hash = prev[n].full_hash
         /\ results[n].deps = prev[n].deps
         /\ results[n].verdict = prev[n].verdict
         /\ OnePerHash(results[n].deps)
         /\ OnePerHash(prev[n].deps)

\* a rerun whose last input had a candidate classified twice and entered once
C16_Witness ==
  /\ RerunDone
  /\ results # <<>>
  /\ results = prev
  /\ LastResult.deps # <<>>
  /\ Len(deps_found) > Len(unique)
  /\ unique = LastResult.deps


\* a write to one of the four files has failed in this run
WriteFailed == \E n \in 1..Len(console) : console[n].ev = "traceback"

\* C17: after a failed write to a log artifact the run is not aborted: it
\* goes on, and at its end every input that resolves has a verdict.
C17_WriteFailureTolerated ==
  WriteFailed =>
    /\ pc # "crashed"
    /\ pc = "done" => Len(results) = Len(ResolvableInputs)


\* C18: with the commits file missing the process ends in sys.exit(1)
\* having issued no history query: no one-line log, no resolution, no
\* search, and no file written.
C18_MissingFileExitsFirst ==
  /\ ~input_src.exists =>
       /\ pc \in {"start", "exit1"}
       /\ queries = <<>>
       /\ fs = NoFiles
  /\ pc = "exit1" =>
       /\ ~input_src.exists
       /\ queries = <<>>
       /\ console = <<Event("error", <<>>, <<>>)>>

\* the process has exited with status 1 on a missing commits file, the
\* upstream history holding commits it could have queried
C18_Witness ==
  /\ pc = "exit1"
  /\ ~input_src.exists
  /\ stable # <<>>


\* the status changes of the lifecycle queued -> running -> {completed,
\* failed, killed}
LifecycleStep(from, to) ==
  \/ from = "queued" /\ to = "running"
  \/ from = "running" /\ to \in {"completed", "failed", "killed"}

\* C19: under every interleaving of worker threads and kill requests a
\* job's status stays as it is or moves one step along queued -> running ->
\* {completed, failed, killed}; a completed, failed or killed job never
\* changes status again.
C19_Lifecycle ==
  [][\A id \in 1..Len(jobs) :
       \/ jobs'[id].status = jobs[id].status
       \/ LifecycleStep(jobs[id].status, jobs'[id].status)]_vars

\* the positions of a worker inside _sync_torvalds_repo_to_log
SyncPositions == {"sync", "fetch", "remove", "clone", "sync_except"}

\* C20: however the repo sync of a build or check_dependency job ends
\* (clone, fetch or removal failing, an exception while syncing or
\* logging), the worker goes on to start the job's make command.
C20_MakeStartedAfterSync ==
  [][\A id \in 1..Len(jobs) :
       (wpc[id] \in SyncPositions /\ wpc'[id] \notin SyncPositions) =>
         wpc'[id] = "popen"]_vars


C22_LiteralSubstring ==
  fx_pc = "done" =>
    /\ fx_fixed <=> Contains(fx_log, fx_subject)
    /\ fx_subject = <<>> => fx_fixed

\* C22 witness: the subject a.c was looked for in a log that holds abc and
\* not a.c, and was not marked fixed
C22_Witness ==
  /\ fx_pc = "done"
  /\ fx_subject = <<"a",".","c">>
  /\ Contains(fx_log, <<"a","b","c">>)
  /\ ~Contains(fx_log, fx_subject)
  /\ ~fx_fixed


\* ----------------------------------------------------------------- C23
\* the kill request n is taken up in this step
KillArrives(n) == kills[n].pc = "idle" /\ kills'[n].pc # "idle"

\* the job a kill request names is unknown, not running, or running with
\* no process handle registered
NotKillable(id) ==
  \/ id > Len(jobs)
  \/ jobs[id].status # "running"
  \/ id \notin job_processes

\* C23: a kill request for an unknown job, for a job that is not running,
\* or for a running job with no registered handle is answered with an
\* error (404 or 400) in the step that takes it up, and that step changes
\* no job, not the process table, and signals no process; a kill whose
\* signal delivery raises is answered with 500 and changes no job either;
\* an answered request does nothing more.
C23_RefusedKillChangesNothing ==
  [][\A n \in 1..MaxKills :
       /\ (KillArrives(n) /\ NotKillable(kills'[n].job)) =>
            /\ kills'[n].pc = "done"
            /\ kills'[n].resp \in {400, 404}
            /\ jobs' = jobs /\ jobs_file' = jobs_file
            /\ job_processes' = job_processes
            /\ proc' = proc
       /\ (kills[n].pc = "signal" /\ kills'[n].resp = 500) =>
            /\ kills'[n].pc = "done"
            /\ jobs' = jobs /\ jobs_file' = jobs_file
            /\ job_processes' = job_processes
       /\ kills[n].pc = "done" => kills'[n] = kills[n]]_vars

\* C23 witness: a kill request was answered 404 for a job that is running
\* its repo sync, with no handle registered and no process started
C23_Witness ==
  \E n \in 1..MaxKills :
    /\ kills[n].pc = "done"
    /\ kills[n].resp = 404
    /\ kills[n].job <= Len(jobs)
    /\ jobs[kills[n].job].status = "running"
    /\ wpc[kills[n].job] \in {"sync", "fetch", "remove", "clone"}
    /\ kills[n].job \notin job_processes
    /\ proc[kills[n].job] = NoProc


\* ----------------------------------------------------------------- C24
\* C24: whenever job_lock is free, every job id in job_processes is the id
\* of a job whose status is running; a queued, completed, failed or killed
\* job has no handle registered.
C24_HandlesOnlyForRunning ==
  job_lock = Free =>
    \A id \in job_processes : id <= Len(jobs) /\ jobs[id].status = "running"

\* C24 witness: with the lock free, one job is killed and has no handle
\* while another is running with its handle registered
C24_Witness ==
  /\ job_lock = Free
  /\ Len(jobs) = 2
  /\ \E a, b \in 1..2 :
       /\ jobs[a].status = "killed" /\ a \notin job_processes
       /\ wpc[a] = "stream"
       /\ jobs[b].status = "running" /\ b \in job_processes


\* ----------------------------------------------------------------- C25
\* C25: a step of a handler or of a worker thread that changes the jobs
\* table or the jobs file is a step inside a job_lock block (the lock is
\* held when the step ends), and whenever job_lock is free the jobs file
\* holds the in-memory jobs table (file writes succeed in SpecJobs).
C25_SavedUnderLock ==
  /\ [](job_lock = Free => jobs_file = jobs)
  /\ [][(jobs' # jobs \/ jobs_file' # jobs_file) =>
          (job_lock = Free /\ job_lock' # Free)]_vars

\* C25 witness: with the lock free, the table holds a finished job and a
\* running one, both written by worker threads, and the file holds the
\* same table
C25_Witness ==
  /\ job_lock = Free
  /\ Len(jobs) = 2
  /\ jobs[1].status = "completed"
  /\ jobs[2].status = "running"
  /\ wpc[1] = "done"
  /\ jobs_file = jobs


\* ----------------------------------------------------------------- C26
\* the statuses a job ends in
Finished == {"completed", "failed", "killed"}

\* C26: under a fair scheduler and with make processes that exit, every
\* job that was created eventually has status completed, failed or killed.
C26_EveryJobEnds ==
  \A id \in 1..MaxJobs :
    (id <= Len(jobs)) ~> (id <= Len(jobs) /\ jobs[id].status \in Finished)


\* ----------------------------------------------------------------- C27
\* C27: in the repo sync of any job, the clone is run only in a state in
\* which the repo directory is absent; a fetch that succeeded ends the
\* sync (no removal, no clone follows); a removal that failed ends the
\* sync (no clone follows).
C27_CloneOnlyWhenAbsent ==
  [][\A id \in 1..Len(jobs) :
       /\ (wpc[id] = "clone" /\ wpc'[id] # "clone") => torvalds_repo = "absent"
       /\ (wpc[id] = "fetch" /\ wpc'[id] \in {"remove", "clone"}) =>
            torvalds_repo = "present"
       /\ (wpc[id] = "remove" /\ wpc'[id] = "clone") => torvalds_repo' = "absent"
       /\ (wpc[id] = "sync" /\ wpc'[id] = "clone") => torvalds_repo = "absent"]_vars


\* ----------------------------------------------------------------- C28
\* the verdict messages of the console, in print order
VerdictEvents ==
  SelectSeq(console, LAMBDA e : e.ev \in {"PASS", "PASS_NODEPS", "FAIL"})

\* the entries of a dependency list the report owes the operator: the
\* REAL ones whose subject the downstream log lacks, and the AMIGOS ones
ToReport(deps) ==
  SelectSeq(deps, LAMBDA d : d.kind = "AMIGOS" \/ ~Contains(DownstreamLog, d.subject))

\* the report line of such an entry
OwedLine(d) ==
  [entry |-> Prefix(d.full_hash, 14) \o <<SP>> \o d.subject,
   label |-> IF d.kind = "REAL" THEN "Missing (REAL)" ELSE "Amigos"]

\* C28: at the end of a run the console holds one verdict message per
\* processed input, in input order; under a FAIL the lines other than the
\* "Fixed" ones are exactly the lines of the input's unmet REAL entries
\* (marked Missing) and of its AMIGOS entries, in dependency-list order;
\* under a PASS no dependency line is printed.
C28_FailListsUnmetAndAmigos ==
  pc = "done" =>
    /\ Len(VerdictEvents) = Len(results)
    /\ \A n \in 1..Len(results) :
         LET e == VerdictEvents[n]
             owed == ToReport(results[n].deps)
         IN IF results[n].verdict = "FAIL"
            THEN /\ e.ev = "FAIL"
                 /\ SelectSeq(e.deps, LAMBDA l : l.label # "Fixed (REAL)") =
                      [m \in 1..Len(owed) |-> OwedLine(owed[m])]
            ELSE /\ e.ev \in {"PASS", "PASS_NODEPS"}
                 /\ e.deps = <<>>

\* C28 witness: a finished run printed a FAIL whose lines are a Missing
\* line followed by an Amigos line
C28_Witness ==
  /\ pc = "done"
  /\ \E n \in 1..Len(results) :
       /\ results[n].verdict = "FAIL"
       /\ Len(VerdictEvents[n].deps) = 2
       /\ VerdictEvents[n].deps[1].label = "Missing (REAL)"
       /\ VerdictEvents[n].deps[2].label = "Amigos"
====
